---- MODULE Spec2Model ----
(***************************************************************************)
(* Model of logprobs_demo.py: a linear script that asks a completion       *)
(* service for one completion with per-token log-probabilities, derives    *)
(* per-token probabilities and the Seq-Logprob statistics, and prints      *)
(* them.                                                                   *)
(*                                                                         *)
(* Numbers.  Log-probabilities and their mean are exact rationals          *)
(* [num, den].  A probability is held in units of 1/PScale, rounded down:  *)
(* the value v stands for a real p with v <= p * PScale < v + 1.  PScale   *)
(* is a multiple of both bar widths and of 10, so the three thresholds     *)
(* and every bar cell boundary are whole units and the comparisons and     *)
(* floors the code makes come out as they do on the real value.            *)
(***************************************************************************)
EXTENDS Integers, Sequences, FiniteSets, TLC

VARIABLES
    key,        \* OPENAI_API_KEY, the module-level configuration constant
    pc,         \* position of the script
    client,     \* the OpenAI client object of __main__
    response,   \* outcome of client.chat.completions.create
    result,     \* analyze_prompt: result
    tokens,     \* analyze_prompt: tokens
    seq_stats,  \* analyze_prompt: seq_stats
    stdout,     \* lines printed so far
    calls,      \* functions entered so far, in order
    exit_code,  \* process exit status, -1 while running
    unit        \* a direct call of one pure function: [fn, prob, width, ret]

vars == <<key, pc, client, response, result, tokens, seq_stats, stdout, calls,
          exit_code, unit>>

-----------------------------------------------------------------------------
(* Bounds of the model *)

MaxTokens == 3      \* longest logprobs content sequence the service returns
MaxBits == 2        \* ordinary token logprobs range over -MaxBits..0
MaxProbUnits == 90  \* largest probability given to a pure function, in 1/PScale
MaxWidth == 21      \* largest bar width given to print_bar

(* Program constants *)

ClampLimit == 700
MaxOutputTokens == 30
AggregateBarWidth == 20
TokenBarWidth == 15
TruncLen == 12

PScale == 4 * TokenBarWidth   \* 60: a multiple of 20, 15 and 10

Placeholder == "YOUR_API_KEY_HERE"
Prompt == "In which episode of Friends Rachel shoves up a marshmallow in Monica's nose?"
Model == "gpt-4o-mini"
Temperature == [num |-> 11, den |-> 10]

None == [type |-> "NoneType"]
ZeroDivisionError == [type |-> "ZeroDivisionError"]
APIError == [type |-> "APIError"]
IndexError == [type |-> "IndexError"]

IsException(v) == v \in {ZeroDivisionError, APIError, IndexError}

-----------------------------------------------------------------------------
(* Arithmetic *)

Abs(x) == IF x < 0 THEN -x ELSE x

RECURSIVE GCD(_, _)
GCD(a, b) == IF b = 0 THEN a ELSE GCD(b, a % b)

\* the rational n/d in lowest terms with a positive denominator (d # 0)
Rat(n, d) ==
    LET g == GCD(Abs(n), Abs(d))
        s == IF d < 0 THEN -1 ELSE 1
    IN [num |-> s * (n \div g), den |-> s * (d \div g)]

RatOfInt(n) == [num |-> n, den |-> 1]
RNeg(x) == [num |-> -x.num, den |-> x.den]
RLeq(x, y) == x.num * y.den <= y.num * x.den
\* variant: max written where min was meant
RMin_as_max(x, y) == IF RLeq(x, y) /\ ~RLeq(y, x) THEN y ELSE x
RMin(x, y) == IF RLeq(y, x) /\ ~RLeq(x, y) THEN y ELSE x   \* first of equals
RMax(x, y) == IF RLeq(x, y) /\ ~RLeq(y, x) THEN y ELSE x

\* Python a / b on numbers
\* variant: floor division a // b
Div_floor(a, b) == IF b = 0 THEN ZeroDivisionError ELSE RatOfInt(a \div b)
Div(a, b) == IF b = 0 THEN ZeroDivisionError ELSE Rat(a, b)

RECURSIVE IPow(_, _)
IPow(b, e) == IF e = 0 THEN 1 ELSE b * IPow(b, e - 1)

RECURSIVE Sum(_)
Sum(s) == IF s = <<>> THEN 0 ELSE Head(s) + Sum(Tail(s))

\* Python 2**x for a rational x <= 0, as a probability in units of 1/PScale:
\* the largest q with (q/PScale)^den <= 2^num, counted in integers.  From
\* 2^-30 on the value is below one unit (PScale^den < 2^30 for den <= 5).
Pow2(x) ==
    LET m == -x.num
        cap == IF m >= 30 THEN 0 ELSE IPow(PScale, x.den) \div IPow(2, m)
    IN Cardinality({q \in 1..PScale : IPow(q, x.den) <= cap})

\* Python int(): truncation toward zero of n/d, d > 0
Trunc(n, d) == IF n >= 0 THEN n \div d ELSE -((-n) \div d)

\* Python str * n: empty for n <= 0
Repeat(ch, n) == [i \in 1..(IF n > 0 THEN n ELSE 0) |-> ch]

-----------------------------------------------------------------------------
(* The service's data *)

\* token texts, as sequences of characters; "\n" is the newline character
LongToken == <<"\n", "\n", "\n", "\n", "\n", "\n", "\n">>
TokenTexts == {<<"a">>, LongToken}

\* per-token log-probabilities (<= 0): ordinary ones and two pathological ones
LogprobValues == ((0 - MaxBits)..0) \cup {0 - ClampLimit, 0 - 2 * ClampLimit}

TokenLogProb == [token : TokenTexts, logprob : LogprobValues]

\* a Python list object (None is no list)
List(s) == [list |-> s]

RECURSIVE SeqsUpTo(_, _)
SeqsUpTo(S, n) ==
    IF n = 0 THEN {<<>>}
    ELSE LET shorter == SeqsUpTo(S, n - 1)
         IN shorter \cup {Append(s, x) : s \in {t \in shorter : Len(t) = n - 1}, x \in S}

Contents ==
    {c \in SeqsUpTo(TokenLogProb, MaxTokens) : Len(c) <= MaxOutputTokens}

\* response.choices[0].logprobs: None, or an object whose content is None or a list
LogprobsObjects ==
    {None} \cup {[content |-> None]} \cup {[content |-> List(c)] : c \in Contents}

Completions == {"Season 4"}

\* what client.chat.completions.create does: raises, or returns a response
Responses ==
    {APIError}
    \cup {[choices |-> <<>>]}
    \cup {[choices |-> <<[message |-> [content |-> t], logprobs |-> l]>>] :
            t \in Completions, l \in LogprobsObjects}

-----------------------------------------------------------------------------
(* Core functions *)

\* Python truth value of logprobs_data, .content and seq_stats
Truthy(v) == v # None /\ v # List(<<>>)

\* variant: tests for None instead of truth values
NoData_is_none(logprobs_data) ==
    \/ logprobs_data = None
    \/ logprobs_data.content = None

NoData(logprobs_data) ==
    \/ ~Truthy(logprobs_data)
    \/ ~Truthy(logprobs_data.content)

\* variant: the request's errors caught and an empty result returned
get_completion_with_logprobs_swallow(resp) ==
    IF resp = APIError THEN [completion |-> "", logprobs |-> None]
    ELSE IF Len(resp.choices) = 0 THEN [completion |-> "", logprobs |-> None]
    ELSE [completion |-> resp.choices[1].message.content,
          logprobs |-> resp.choices[1].logprobs]

\* get_completion_with_logprobs, given what create() did
get_completion_with_logprobs(resp) ==
    IF resp = APIError THEN APIError
    ELSE IF Len(resp.choices) = 0 THEN IndexError
    ELSE [completion |-> resp.choices[1].message.content,
          logprobs |-> resp.choices[1].logprobs]

\* variant: each token inserted at the front of the list
extract_token_probabilities_reversed(logprobs_data) ==
    IF NoData(logprobs_data) THEN <<>>
    ELSE LET n == Len(logprobs_data.content.list)
         IN [i \in 1..n |->
               LET token_info == logprobs_data.content.list[n + 1 - i]
               IN [token |-> token_info.token,
                   probability |-> Pow2(RatOfInt(token_info.logprob)),
                   logprob |-> token_info.logprob]]

extract_token_probabilities(logprobs_data) ==
    IF NoData(logprobs_data) THEN <<>>
    ELSE [i \in 1..Len(logprobs_data.content.list) |->
            LET token_info == logprobs_data.content.list[i]
            IN [token |-> token_info.token,
                probability |-> Pow2(RatOfInt(token_info.logprob)),
                logprob |-> token_info.logprob]]

\* perplexity = math.exp(clamped): kept as the exponential of its argument
Exp(x) == [exp |-> x]

calculate_seq_logprob(logprobs_data) ==
    IF NoData(logprobs_data) THEN None
    ELSE LET token_logprobs == [i \in 1..Len(logprobs_data.content.list) |->
                                   logprobs_data.content.list[i].logprob]
             num_tokens == Len(token_logprobs)
             sum_logprob == Sum(token_logprobs)
             avg_logprob == Div(sum_logprob, num_tokens)
         IN IF avg_logprob = ZeroDivisionError THEN ZeroDivisionError
            ELSE LET clamped == RMax(RMin(RNeg(avg_logprob), RatOfInt(ClampLimit)),
                                     RatOfInt(0 - ClampLimit))
                 IN [avg_logprob |-> avg_logprob,
                     avg_probability |-> Pow2(avg_logprob),
                     perplexity |-> Exp(clamped),
                     num_tokens |-> num_tokens]

-----------------------------------------------------------------------------
(* Terminal visualization *)

Green == "\\033[92m"
Yellow == "\\033[93m"
Red == "\\033[91m"

\* thresholds 0.8, 0.5, 0.2 in units of 1/PScale
High == (8 * PScale) \div 10
Med == (5 * PScale) \div 10
Low == (2 * PScale) \div 10

\* variant: strict comparisons at the thresholds
get_confidence_label_strict(prob) ==
    IF prob > High THEN [label |-> "HIGH", color |-> Green]
    ELSE IF prob > Med THEN [label |-> "MED ", color |-> Yellow]
    ELSE IF prob > Low THEN [label |-> "LOW ", color |-> Red]
    ELSE [label |-> "VLOW", color |-> Red]

\* variant: one color for everything below the HIGH threshold
get_confidence_label_two_colors(prob) ==
    IF prob >= High THEN [label |-> "HIGH", color |-> Green]
    ELSE IF prob >= Med THEN [label |-> "MED ", color |-> Red]
    ELSE IF prob >= Low THEN [label |-> "LOW ", color |-> Red]
    ELSE [label |-> "VLOW", color |-> Red]

get_confidence_label(prob) ==
    IF prob >= High THEN [label |-> "HIGH", color |-> Green]
    ELSE IF prob >= Med THEN [label |-> "MED ", color |-> Yellow]
    ELSE IF prob >= Low THEN [label |-> "LOW ", color |-> Red]
    ELSE [label |-> "VLOW", color |-> Red]

FilledChar == "#"
EmptyChar == "."

\* variant: the probability clamped to [0, 1] first
print_bar_clamped(prob, width) ==
    LET p == IF prob > PScale THEN PScale ELSE IF prob < 0 THEN 0 ELSE prob
        filled == Trunc(p * width, PScale)
    IN Repeat(FilledChar, filled) \o Repeat(EmptyChar, width - filled)

print_bar(prob, width) ==
    LET filled == Trunc(prob * width, PScale)
    IN Repeat(FilledChar, filled) \o Repeat(EmptyChar, width - filled)

\* repr(token)[1:-1]: escapes shown, the newline as backslash and n
RECURSIVE Repr(_)
Repr(s) ==
    IF s = <<>> THEN <<>>
    ELSE (IF Head(s) = "\n" THEN <<"\\", "n">> ELSE <<Head(s)>>) \o Repr(Tail(s))

TokenDisplay(token) ==
    LET token_display == Repr(token)
    IN IF Len(token_display) > TruncLen
       THEN SubSeq(token_display, 1, TruncLen) \o <<"...">>
       ELSE token_display

TokenRow(t) ==
    LET c == get_confidence_label(t.probability)
    IN [kind |-> "row",
        token_display |-> TokenDisplay(t.token),
        color |-> c.color,
        probability |-> t.probability,
        logprob |-> t.logprob,
        bar |-> print_bar(t.probability, TokenBarWidth)]

\* variant: the summary printed after the token table
print_token_analysis_stats_last(prompt, model, temperature, completion, toks, stats) ==
    <<[kind |-> "rule"],
      [kind |-> "prompt", prompt |-> prompt],
      [kind |-> "model", model |-> model, temperature |-> temperature],
      [kind |-> "rule"]>>
    \o <<[kind |-> "table_title"], [kind |-> "table_header"], [kind |-> "table_rule"]>>
    \o [i \in 1..Len(toks) |-> TokenRow(toks[i])]
    \o (IF Truthy(stats)
        THEN <<[kind |-> "overall_title"],
               [kind |-> "overall",
                color |-> get_confidence_label(stats.avg_probability).color,
                bar |-> print_bar(stats.avg_probability, AggregateBarWidth),
                avg_probability |-> stats.avg_probability,
                avg_logprob |-> stats.avg_logprob,
                perplexity |-> stats.perplexity]>>
        ELSE <<>>)
    \o <<[kind |-> "response_title"],
         [kind |-> "response", completion |-> completion],
         [kind |-> "blank"]>>

\* the lines print_token_analysis prints, in order
print_token_analysis(prompt, model, temperature, completion, toks, stats) ==
    <<[kind |-> "rule"],
      [kind |-> "prompt", prompt |-> prompt],
      [kind |-> "model", model |-> model, temperature |-> temperature],
      [kind |-> "rule"]>>
    \o (IF Truthy(stats)
        THEN <<[kind |-> "overall_title"],
               [kind |-> "overall",
                color |-> get_confidence_label(stats.avg_probability).color,
                bar |-> print_bar(stats.avg_probability, AggregateBarWidth),
                avg_probability |-> stats.avg_probability,
                avg_logprob |-> stats.avg_logprob,
                perplexity |-> stats.perplexity]>>
        ELSE <<>>)
    \o <<[kind |-> "table_title"], [kind |-> "table_header"], [kind |-> "table_rule"]>>
    \o [i \in 1..Len(toks) |-> TokenRow(toks[i])]
    \o <<[kind |-> "response_title"],
         [kind |-> "response", completion |-> completion],
         [kind |-> "blank"]>>

-----------------------------------------------------------------------------
(* The script: __main__ and analyze_prompt *)

Idle == [fn |-> "none", prob |-> 0, width |-> 0, ret |-> None]

Init ==
    /\ key \in {Placeholder, "sk-configured"}
    /\ pc = "main"
    /\ client = None
    /\ response = None
    /\ result = None
    /\ tokens = <<>>
    /\ seq_stats = None
    /\ stdout = <<>>
    /\ calls = <<>>
    /\ exit_code = -1
    /\ unit = Idle

\* variant: the warning printed without exit(1), the script going on
MainConfigError_no_exit ==
    /\ pc = "main"
    /\ key = Placeholder
    /\ client' = [api_key |-> key]
    /\ calls' = Append(calls, "OpenAI")
    /\ stdout' = stdout \o <<[kind |-> "warning"], [kind |-> "client_initialized"]>>
    /\ pc' = "analyze_prompt"
    /\ UNCHANGED <<key, response, result, tokens, seq_stats, exit_code, unit>>

\* lines 193-195: the placeholder credential
MainConfigError ==
    /\ pc = "main"
    /\ key = Placeholder
    /\ stdout' = Append(stdout, [kind |-> "warning"])
    /\ exit_code' = 1
    /\ pc' = "exited"
    /\ UNCHANGED <<key, client, response, result, tokens, seq_stats, calls, unit>>

\* lines 197-198: client = OpenAI(api_key=...), then the confirmation line
MainInitClient ==
    /\ pc = "main"
    /\ key # Placeholder
    /\ client' = [api_key |-> key]
    /\ calls' = Append(calls, "OpenAI")
    /\ stdout' = Append(stdout, [kind |-> "client_initialized"])
    /\ pc' = "analyze_prompt"
    /\ UNCHANGED <<key, response, result, tokens, seq_stats, exit_code, unit>>

\* line 173, an exception leaving analyze_prompt and __main__ uncaught
Raise ==
    /\ pc' = "crashed"
    /\ exit_code' = 1

\* line 173: result = get_completion_with_logprobs(...), the one request
GetCompletion ==
    /\ pc = "analyze_prompt"
    /\ \E resp \in Responses :
          LET r == get_completion_with_logprobs(resp)
          IN /\ response' = resp
             /\ calls' = calls \o <<"get_completion_with_logprobs", "create">>
             /\ IF IsException(r)
                THEN Raise /\ UNCHANGED result
                ELSE /\ result' = r
                     /\ pc' = "extract"
                     /\ UNCHANGED exit_code
    /\ UNCHANGED <<key, client, tokens, seq_stats, stdout, unit>>

\* line 174: tokens = extract_token_probabilities(result["logprobs"])
Extract ==
    /\ pc = "extract"
    /\ tokens' = extract_token_probabilities(result.logprobs)
    /\ calls' = Append(calls, "extract_token_probabilities")
    /\ pc' = "calculate"
    /\ UNCHANGED <<key, client, response, result, seq_stats, stdout, exit_code, unit>>

\* line 175: seq_stats = calculate_seq_logprob(result["logprobs"])
Calculate ==
    /\ pc = "calculate"
    /\ calls' = Append(calls, "calculate_seq_logprob")
    /\ LET r == calculate_seq_logprob(result.logprobs)
       IN IF IsException(r)
          THEN Raise /\ UNCHANGED seq_stats
          ELSE /\ seq_stats' = r
               /\ pc' = "print"
               /\ UNCHANGED exit_code
    /\ UNCHANGED <<key, client, response, result, tokens, stdout, unit>>

\* lines 177-184, then the script ends
PrintAnalysis ==
    /\ pc = "print"
    /\ calls' = Append(calls, "print_token_analysis")
    /\ stdout' = stdout \o print_token_analysis(Prompt, Model, Temperature,
                                                result.completion, tokens, seq_stats)
    /\ pc' = "done"
    /\ exit_code' = 0
    /\ UNCHANGED <<key, client, response, result, tokens, seq_stats, unit>>

Next ==
    \/ MainConfigError
    \/ MainInitClient
    \/ GetCompletion
    \/ Extract
    \/ Calculate
    \/ PrintAnalysis

Spec == Init /\ [][Next]_vars

-----------------------------------------------------------------------------
(* The display functions called directly, on any probability and width *)

InitFn ==
    /\ key = Placeholder
    /\ pc = "main"
    /\ client = None
    /\ response = None
    /\ result = None
    /\ tokens = <<>>
    /\ seq_stats = None
    /\ stdout = <<>>
    /\ calls = <<>>
    /\ exit_code = -1
    /\ unit \in [fn : {"none"}, prob : 0..MaxProbUnits, width : 0..MaxWidth, ret : {None}]

CallGetConfidenceLabel ==
    /\ unit.fn = "none"
    /\ unit' = [unit EXCEPT !.fn = "get_confidence_label",
                            !.ret = get_confidence_label(unit.prob)]
    /\ UNCHANGED <<key, pc, client, response, result, tokens, seq_stats, stdout,
                   calls, exit_code>>

CallPrintBar ==
    /\ unit.fn = "none"
    /\ unit' = [unit EXCEPT !.fn = "print_bar",
                            !.ret = [bar |-> print_bar(unit.prob, unit.width)]]
    /\ UNCHANGED <<key, pc, client, response, result, tokens, seq_stats, stdout,
                   calls, exit_code>>

NextFn ==
    \/ CallGetConfidenceLabel
    \/ CallPrintBar

SpecFn == InitFn /\ [][NextFn]_vars

-----------------------------------------------------------------------------
(* Properties of the display functions, under SpecFn *)

CountOf(seq, ch) == Cardinality({i \in DOMAIN seq : seq[i] = ch})

LabelCalled == unit.fn = "get_confidence_label"
BarCalled == unit.fn = "print_bar"

\* C1: get_confidence_label is total over [0,1] with inclusive-low boundaries:
\* p >= 0.8 gives HIGH, 0.5 <= p < 0.8 gives MED, 0.2 <= p < 0.5 gives LOW,
\* p < 0.2 gives VLOW, each probability getting exactly one of the four labels
\* (the code pads MED and LOW to four characters).
C1_BucketingTotal ==
    (LabelCalled /\ unit.prob <= PScale) =>
        LET p == unit.prob
            l == unit.ret.label
        IN /\ l \in {"HIGH", "MED ", "LOW ", "VLOW"}
           /\ (l = "HIGH") <=> (10 * p >= 8 * PScale)
           /\ (l = "MED ") <=> (10 * p >= 5 * PScale /\ 10 * p < 8 * PScale)
           /\ (l = "LOW ") <=> (10 * p >= 2 * PScale /\ 10 * p < 5 * PScale)
           /\ (l = "VLOW") <=> (10 * p < 2 * PScale)

\* C1 witness: the probability exactly 0.8 was bucketed, to HIGH
C1_Witness ==
    /\ LabelCalled
    /\ 10 * unit.prob = 8 * PScale
    /\ unit.ret.label = "HIGH"

\* C8 as stated: every probability below 0.8 gets one and the same color, the
\* one VLOW gets, and HIGH gets another.
C8_TwoColorsOnly ==
    LabelCalled =>
        /\ (10 * unit.prob < 8 * PScale) => unit.ret.color = get_confidence_label(0).color
        /\ (10 * unit.prob >= 8 * PScale) => unit.ret.color # get_confidence_label(0).color

\* C8 amended: three distinct colors are used: one for HIGH, one for MED, and a
\* single one shared by every probability below 0.5 (LOW and VLOW).
C8_ThreeColors ==
    LabelCalled =>
        LET p == unit.prob
            c == unit.ret.color
        IN /\ (10 * p >= 8 * PScale) => c = "\\033[92m"
           /\ (10 * p >= 5 * PScale /\ 10 * p < 8 * PScale) => c = "\\033[93m"
           /\ (10 * p < 5 * PScale) => c = "\\033[91m"

\* C8 witness: a MED probability got the color that is neither HIGH's nor LOW's
C8_Witness ==
    /\ LabelCalled
    /\ unit.ret.label = "MED "
    /\ unit.ret.color = "\\033[93m"

\* the bar is `filled` filled characters followed by empty ones only
BarLayout(bar, filled) ==
    /\ \A i \in DOMAIN bar : (i <= filled) => bar[i] = FilledChar
    /\ \A i \in DOMAIN bar : (i > filled) => bar[i] = EmptyChar

\* C9 as stated: floor(p*W) filled characters then W - filled empty ones; for p
\* in [0,1] the bar is W long with 0 <= filled <= W; for every p > 1 the bar is
\* longer than W, with filled > W and no empty characters (read for W > 0).
C9_BarAsStated ==
    BarCalled =>
        LET p == unit.prob
            W == unit.width
            bar == unit.ret.bar
            filled == CountOf(bar, FilledChar)
        IN /\ filled = (p * W) \div PScale
           /\ BarLayout(bar, filled)
           /\ (p <= PScale) => (Len(bar) = W /\ 0 <= filled /\ filled <= W)
           /\ (p > PScale /\ W > 0) =>
                 (Len(bar) > W /\ filled > W /\ CountOf(bar, EmptyChar) = 0)

\* C9 amended: as stated for p in [0,1]; for p > 1 no empty characters are
\* printed and the bar is floor(p*W) >= W characters long, so it is longer than
\* W exactly when floor(p*W) > W and exactly W long otherwise.
C9_BarAmended ==
    BarCalled =>
        LET p == unit.prob
            W == unit.width
            bar == unit.ret.bar
            filled == CountOf(bar, FilledChar)
        IN /\ filled = (p * W) \div PScale
           /\ BarLayout(bar, filled)
           /\ (p <= PScale) => (Len(bar) = W /\ 0 <= filled /\ filled <= W)
           /\ (p > PScale) =>
                 /\ CountOf(bar, EmptyChar) = 0
                 /\ Len(bar) = filled
                 /\ filled >= W
                 /\ (Len(bar) > W) <=> ((p - PScale) * W >= PScale)

\* C9 witness: a probability above 1 whose bar of positive width is exactly W long
C9_Witness ==
    /\ BarCalled
    /\ unit.prob > PScale
    /\ unit.width > 0
    /\ Len(unit.ret.bar) = unit.width

-----------------------------------------------------------------------------
(* Properties of the script, under Spec *)

Called(fn) == \E i \in DOMAIN calls : calls[i] = fn

\* the raw per-token sequence of the response in hand (empty when there is none)
Raw ==
    IF result = None THEN <<>>
    ELSE IF result.logprobs = None THEN <<>>
    ELSE IF result.logprobs.content = None THEN <<>>
    ELSE result.logprobs.content.list

HasResult == result # None

\* the service's answer is a failure: the call raised, or there are no choices
RequestFailed ==
    IF response = None THEN FALSE
    ELSE IF response = APIError THEN TRUE
    ELSE Len(response.choices) = 0

\* C2: with the logprobs object absent or its content empty, extraction gives
\* the empty sequence, aggregation gives None, and neither raises: the script
\* goes on to print and ends normally.
C2_EmptyDataIsNoError ==
    (HasResult /\ Raw = <<>>) =>
        /\ pc # "crashed"
        /\ Called("extract_token_probabilities") => tokens = <<>>
        /\ Called("calculate_seq_logprob") => (seq_stats = None /\ pc \in {"print", "done"})

\* C2 witness: a present logprobs object with an empty content list went
\* through extraction and aggregation
C2_Witness ==
    /\ HasResult
    /\ result.logprobs # None
    /\ result.logprobs.content = List(<<>>)
    /\ Called("calculate_seq_logprob")
    /\ tokens = <<>>
    /\ seq_stats = None

\* C3: in every result analyze_prompt builds, sequence stats are present exactly
\* when token_stats is non-empty, num_tokens is then the length of token_stats,
\* and token_stats holds one TokenStat per raw token, in generation order.
C3_StatsMatchTokens ==
    (pc \in {"print", "done"}) =>
        /\ (seq_stats # None) <=> (tokens # <<>>)
        /\ (seq_stats # None) => seq_stats.num_tokens = Len(tokens)
        /\ Len(tokens) = Len(Raw)
        /\ \A i \in DOMAIN tokens :
              /\ tokens[i].token = Raw[i].token
              /\ tokens[i].logprob = Raw[i].logprob

\* C3 witness: a result with at least two tokens of different text and stats
C3_Witness ==
    /\ pc = "done"
    /\ Len(tokens) >= 2
    /\ tokens[1].token # tokens[2].token
    /\ seq_stats # None

\* the response's logprobs object with its token texts replaced by tt
Retokenized(tt) ==
    [content |-> List([i \in DOMAIN Raw |-> [token |-> tt[i], logprob |-> Raw[i].logprob]])]

\* C4: avg_logprob is the sum of the raw log-probabilities divided by their
\* number, and the stats do not depend on the token texts: the same logprobs
\* under any other token strings give identical stats.
C4_MeanIgnoresText ==
    (Called("calculate_seq_logprob") /\ Raw # <<>>) =>
        /\ seq_stats # None
        /\ seq_stats.avg_logprob.den > 0
        /\ seq_stats.avg_logprob.num * Len(Raw)
              = Sum([i \in DOMAIN Raw |-> Raw[i].logprob]) * seq_stats.avg_logprob.den
        /\ \A tt \in [DOMAIN Raw -> TokenTexts] :
              calculate_seq_logprob(Retokenized(tt)) = seq_stats

\* C4 witness: stats of two different tokens whose mean is no whole number
C4_Witness ==
    /\ Called("calculate_seq_logprob")
    /\ Len(Raw) = 2
    /\ Raw[1].token # Raw[2].token
    /\ seq_stats # None
    /\ seq_stats.avg_logprob.den = 2

\* C5: with the placeholder credential no client is ever constructed and no
\* request issued; the first step prints the warning and ends the process with
\* a non-zero exit code, and nothing runs after it.
C5_PlaceholderStopsEarly ==
    (key = Placeholder) =>
        /\ client = None
        /\ calls = <<>>
        /\ response = None
        /\ (pc = "main") => (stdout = <<>> /\ exit_code = -1)
        /\ (pc # "main") =>
              /\ pc = "exited"
              /\ exit_code = 1
              /\ stdout = <<[kind |-> "warning"]>>
              /\ ~ENABLED Next

\* C5 witness: the process ended on the placeholder credential
C5_Witness ==
    /\ key = Placeholder
    /\ pc = "exited"
    /\ exit_code = 1

\* C6: print_token_analysis prints the header, then the aggregate lines if and
\* only if stats exist, then the table header, then one row per token in token
\* order, then the completion text; with no tokens there is no aggregate block
\* and no row, and the completion text is still printed.
C6_SectionsInOrder ==
    (pc = "done") =>
        LET out == SubSeq(stdout, 2, Len(stdout))
            n == Len(Raw)
            a == IF seq_stats # None THEN 2 ELSE 0
            kinds == [i \in DOMAIN out |-> out[i].kind]
        IN /\ Len(out) = 4 + a + 3 + n + 3
           /\ SubSeq(kinds, 1, 4) = <<"rule", "prompt", "model", "rule">>
           /\ out[2].prompt = Prompt
           /\ out[3].model = Model /\ out[3].temperature = Temperature
           /\ (a = 2) => SubSeq(kinds, 5, 6) = <<"overall_title", "overall">>
           /\ (a = 0) => \A i \in DOMAIN kinds : kinds[i] \notin {"overall_title", "overall"}
           /\ SubSeq(kinds, 5 + a, 7 + a) = <<"table_title", "table_header", "table_rule">>
           /\ \A i \in 1..n :
                 /\ kinds[7 + a + i] = "row"
                 /\ out[7 + a + i].token_display = TokenDisplay(Raw[i].token)
                 /\ out[7 + a + i].logprob = Raw[i].logprob
           /\ SubSeq(kinds, 8 + a + n, 10 + a + n) = <<"response_title", "response", "blank">>
           /\ out[9 + a + n].completion = result.completion
           /\ (n = 0) => a = 0

\* C6 witness: an analysis with stats and two rows of different tokens was printed
C6_Witness ==
    /\ pc = "done"
    /\ seq_stats # None
    /\ Len(Raw) = 2
    /\ Raw[1].token # Raw[2].token
    /\ Len(stdout) = 15

\* C7: a failed request (the call raises, or the response has no choices) is
\* caught nowhere: the run ends there with a failure status, the request was
\* made once, and no extraction, aggregation or rendering ran.
C7_RequestErrorPropagates ==
    /\ CountOf(calls, "create") <= 1
    /\ RequestFailed =>
          /\ pc = "crashed"
          /\ exit_code = 1
          /\ calls = <<"OpenAI", "get_completion_with_logprobs", "create">>
          /\ result = None
          /\ tokens = <<>>
          /\ seq_stats = None
          /\ stdout = <<[kind |-> "client_initialized"]>>
          /\ ~ENABLED Next

\* C7 witness: a response without choices ended the run
C7_Witness ==
    /\ response = [choices |-> <<>>]
    /\ pc = "crashed"

\* C10: the exponent given to exp is clamp(-avg_logprob, -700, 700): it lies in
\* [-700, 700], is -avg_logprob when that is in range, and is 700 exactly when
\* -avg_logprob >= 700, perplexity then being exp(700).
C10_ExponentClamped ==
    (Called("calculate_seq_logprob") /\ seq_stats # None) =>
        LET total == Sum([i \in DOMAIN Raw |-> Raw[i].logprob])
            n == Len(Raw)
            e == seq_stats.perplexity.exp
        IN /\ e.den > 0
           /\ e.num <= 700 * e.den
           /\ e.num >= (0 - 700) * e.den
           /\ ((0 - total) <= 700 * n /\ (0 - total) >= (0 - 700) * n)
                 => e.num * n = (0 - total) * e.den
           /\ ((0 - total) >= 700 * n) <=> (e = [num |-> 700, den |-> 1])
           /\ ((0 - total) >= 700 * n) <=> (seq_stats.perplexity = Exp(RatOfInt(700)))

\* C10 witness: a mean below -700 engaged the clamp
C10_Witness ==
    /\ Called("calculate_seq_logprob")
    /\ seq_stats # None
    /\ Sum([i \in DOMAIN Raw |-> Raw[i].logprob]) + 700 * Len(Raw) < 0
    /\ seq_stats.perplexity.exp = [num |-> 700, den |-> 1]

====
